---- MODULE Spec2Model ----
(***************************************************************************)
(* The blog build script of public-site (the script text found in          *)
(* src/public-site/src/pages/HomePage.tsx, lines 226-877): markdown        *)
(* articles in blog-content/ are turned into one generated module per      *)
(* article plus an index module in src/data/blog/, images are mirrored     *)
(* into public/images/blog/, and a command line / interactive driver       *)
(* sequences build-all, build-one and delete-one.                          *)
(*                                                                         *)
(* The file system is the state.  One run of the script is one process:    *)
(* main() dispatches on the arguments, every synchronous stretch of the    *)
(* script is one step, and the process waits only at a readline question.  *)
(*                                                                         *)
(* The script's pure functions (the questions' callbacks, the index        *)
(* module's vocabulary functions, escapeTemplate, markdownToHtml and the   *)
(* header loop of parseFrontmatter) are modelled on strings, as sequences  *)
(* of characters, each under a specification of its own.                   *)
(***************************************************************************)
EXTENDS Naturals, Sequences, FiniteSets, TLC

\* ------------------------------------------------------------------ bounds

\* The longest command line (process.argv.slice(2)) that is tried.
MaxArgs == 2

\* ------------------------------------------------------------- vocabulary

\* Filename stems of blog-content/<stem>.md, in the order readdirSync lists them.
StemOrder == <<"alpha", "beta">>

Stems == {StemOrder[i] : i \in 1..Len(StemOrder)}

\* A frontmatter without a slug key leaves frontmatter.slug undefined.
Undefined == "undefined"

\* The values a frontmatter slug takes: a header is free to name any slug,
\* whatever the file is called.
SlugValues == Stems \cup {Undefined}

\* The entries blog-content/images/ may hold.
Images == {"cover.png", "drafts"}

NoFile == [kind |-> "nofile"]

NoDir == [kind |-> "nodir"]

\* A markdown file without the leading ---\n...\n---\n block.
BadMarkdown ==
    [kind |-> "markdown", header |-> FALSE, slug |-> Undefined, category |-> "", tags |-> <<>>]

\* A markdown file whose header block gives these fields.
Markdown(s, c, t) ==
    [kind |-> "markdown", header |-> TRUE, slug |-> s, category |-> c, tags |-> t]

\* The article the author writes under each slug.
ArticleOf(s) ==
    CASE s = "alpha" -> Markdown("alpha", "faith", <<"faith", "family">>)
      [] s = "beta" -> Markdown("beta", "community", <<"faith">>)
      [] OTHER -> Markdown(Undefined, "faith", <<"community">>)

\* What the author may put into a markdown file, whatever its name.
Contents == {BadMarkdown} \cup {ArticleOf(s) : s \in SlugValues}

\* ------------------------------------------------------------------ state

VARIABLES
    md,       \* blog-content/: stem -> markdown file or NoFile
    imgSrc,   \* blog-content/images/: NoDir, or its entries
    imgPub,   \* public/images/blog/: NoDir, or its files
    mods,     \* src/data/blog/<slug>.ts: slug -> generated module or NoFile
    index,    \* src/data/blog/index.ts: generated index or NoFile
    pc,       \* where the script's process is
    path,     \* the branch of main() this process took
    listed,   \* the entries the pending question listed
    result,   \* how the process ended (meaningful when pc = "done")
    argv,     \* process.argv.slice(2), where the specification keeps it
    typed,    \* the line the operator typed at the last question
    text,     \* the string handed to one of the script's pure functions
    value     \* what that function returned

vars == <<md, imgSrc, imgPub, mods, index, pc, path, listed, result, argv, typed, text, value>>

\* No line was typed at a question yet.
NoAnswer == "(none)"

\* No function of the script was applied to text.
NoValue == [kind |-> "none"]

\* The file system as one value, for the script's functions to transform.
World == [md |-> md, imgSrc |-> imgSrc, imgPub |-> imgPub, mods |-> mods, index |-> index]

NoResult == [op |-> "none", target |-> "", outcome |-> "", exit |-> 0]

\* ------------------------------------------------------- reading articles

\* parseFrontmatter's two outcomes on a whole file: a record, or the throw.
parseFrontmatter(content) ==
    IF content.header
    THEN [thrown |-> "",
          frontmatter |-> [slug |-> content.slug,
                           category |-> content.category,
                           tags |-> content.tags]]
    ELSE [thrown |-> "Invalid frontmatter format"]

processMarkdownFile(content) ==
    LET p == parseFrontmatter(content)
    IN  IF p.thrown # ""
        THEN p
        ELSE [thrown |-> "", slug |-> p.frontmatter.slug, meta |-> p.frontmatter]

getMarkdownFiles(w) == SelectSeq(StemOrder, LAMBDA s : w.md[s] # NoFile)

\* files.map(processMarkdownFile): the first file that throws ends the map.
RECURSIVE loadArticles(_, _)
loadArticles(w, files) ==
    IF files = <<>>
    THEN [thrown |-> "", articles |-> <<>>]
    ELSE LET a == processMarkdownFile(w.md[Head(files)])
             rest == loadArticles(w, Tail(files))
         IN  IF a.thrown # "" THEN [thrown |-> a.thrown, articles |-> <<>>]
             ELSE IF rest.thrown # "" THEN rest
             ELSE [thrown |-> "", articles |-> <<a>> \o rest.articles]

\* ----------------------------------------------------------------- images

\* copyImages that makes the public directory before it looks for the source.
copyImagesCreating(w) ==
    LET before == IF w.imgPub = NoDir THEN {} ELSE w.imgPub.files
        copied == IF w.imgSrc = NoDir THEN {}
                  ELSE {i \in Images : w.imgSrc.entries[i] = "file"}
    IN  [w EXCEPT !.imgPub = [kind |-> "dir", files |-> before \cup copied]]

copyImages(w) ==
    IF w.imgSrc = NoDir
    THEN w
    ELSE LET before == IF w.imgPub = NoDir THEN {} ELSE w.imgPub.files
             copied == {i \in Images : w.imgSrc.entries[i] = "file"}
         IN  [w EXCEPT !.imgPub = [kind |-> "dir", files |-> before \cup copied]]

\* -------------------------------------------------------------- generator

articleModule(a) == [kind |-> "module", meta |-> a.meta]

\* The loop over the articles: camelCase(article.slug) throws on an undefined
\* slug, after the modules of the articles before it were written.
RECURSIVE writeModules(_, _)
writeModules(m, articles) ==
    IF articles = <<>>
    THEN [thrown |-> "", mods |-> m]
    ELSE LET a == Head(articles)
         IN  IF a.slug = Undefined
             THEN [thrown |-> "Cannot read properties of undefined", mods |-> m]
             ELSE writeModules([m EXCEPT ![a.slug] = articleModule(a)], Tail(articles))

indexModule(articles) ==
    [kind |-> "index",
     vocab |-> "computed",
     posts |-> [i \in 1..Len(articles) |-> articles[i].slug],
     meta |-> [i \in 1..Len(articles) |-> articles[i].meta]]

\* The UTF-16 code units of the strings used as categories and tags.
codeUnits(str) ==
    CASE str = "community" -> <<99, 111, 109, 109, 117, 110, 105, 116, 121>>
      [] str = "faith" -> <<102, 97, 105, 116, 104>>
      [] str = "family" -> <<102, 97, 109, 105, 108, 121>>
      [] OTHER -> <<>>

\* x < y as Array.prototype.sort() orders strings: by code units.
RECURSIVE codeUnitsLess(_, _)
codeUnitsLess(x, y) ==
    IF y = <<>> THEN FALSE
    ELSE IF x = <<>> THEN TRUE
    ELSE IF Head(x) # Head(y) THEN Head(x) < Head(y)
    ELSE codeUnitsLess(Tail(x), Tail(y))

\* Array.from(new Set(...)).sort()
RECURSIVE sortedFromSet(_)
sortedFromSet(strs) ==
    IF strs = {}
    THEN <<>>
    ELSE LET least == CHOOSE x \in strs :
                 \A y \in strs \ {x} : codeUnitsLess(codeUnits(x), codeUnits(y))
         IN  <<least>> \o sortedFromSet(strs \ {least})

\* The index module's exported getAllCategories(): the generated index
\* computes it from blogPostsMeta, the empty index returns the literal [].
getAllCategories(idx) ==
    IF idx.vocab = "literal"
    THEN <<>>
    ELSE sortedFromSet({idx.meta[i].category : i \in DOMAIN idx.meta})

\* getAllTags() sorting the other way round.
getAllTagsDescending(idx) ==
    IF idx.vocab = "literal"
    THEN <<>>
    ELSE LET up == sortedFromSet(UNION {{idx.meta[i].tags[j] : j \in DOMAIN idx.meta[i].tags} :
                                            i \in DOMAIN idx.meta})
         IN  [i \in 1..Len(up) |-> up[Len(up) + 1 - i]]

\* The index module's exported getAllTags().
getAllTags(idx) ==
    IF idx.vocab = "literal"
    THEN <<>>
    ELSE sortedFromSet(UNION {{idx.meta[i].tags[j] : j \in DOMAIN idx.meta[i].tags} :
                                  i \in DOMAIN idx.meta})

\* The index written piecemeal: the new entries added to the ones it had.
generateAppending(w, articles) ==
    LET wr == writeModules(w.mods, articles)
        old == IF w.index = NoFile THEN indexModule(<<>>) ELSE w.index
        new == indexModule(articles)
    IN  IF wr.thrown # ""
        THEN [thrown |-> wr.thrown, w |-> [w EXCEPT !.mods = wr.mods]]
        ELSE [thrown |-> "",
              w |-> [w EXCEPT !.mods = wr.mods,
                              !.index = [new EXCEPT !.posts = old.posts \o new.posts,
                                                    !.meta = old.meta \o new.meta]]]

generateTypeScriptFiles(w, articles) ==
    LET wr == writeModules(w.mods, articles)
    IN  IF wr.thrown # ""
        THEN [thrown |-> wr.thrown, w |-> [w EXCEPT !.mods = wr.mods]]
        ELSE [thrown |-> "",
              w |-> [w EXCEPT !.mods = wr.mods, !.index = indexModule(articles)]]

\* ------------------------------------------------------------------ build

Done(w, op, target, outcome, exit) ==
    [w |-> w, op |-> op, target |-> target, outcome |-> outcome, exit |-> exit]

\* A throw anywhere below main() is caught by main().catch: exit code 1.
Thrown(w, op, target, msg) == Done(w, op, target, msg, 1)

generateOrThrow(w, articles, op, target) ==
    LET g == generateTypeScriptFiles(w, articles)
    IN  IF g.thrown # ""
        THEN Thrown(g.w, op, target, g.thrown)
        ELSE Done(g.w, op, target, "ok", 0)

\* build-one that writes only the article it parsed, index or no index.
buildOnlyRequested(w, target) ==
    LET files == getMarkdownFiles(w)
        filesToProcess ==
            IF target = "all" THEN files ELSE SelectSeq(files, LAMBDA f : f = target)
        loaded == loadArticles(w, filesToProcess)
        w1 == copyImages(w)
    IN  IF files = <<>> THEN Done(w, "build", target, "No markdown files found!", 0)
        ELSE IF filesToProcess = <<>> THEN Done(w, "build", target, "Article not found", 0)
        ELSE IF loaded.thrown # "" THEN Thrown(w, "build", target, loaded.thrown)
        ELSE generateOrThrow(w1, loaded.articles, "build", target)

\* build-one that reloads every markdown file, index or no index.
buildAlwaysReloads(w, target) ==
    LET files == getMarkdownFiles(w)
        filesToProcess ==
            IF target = "all" THEN files ELSE SelectSeq(files, LAMBDA f : f = target)
        loaded == loadArticles(w, filesToProcess)
        w1 == copyImages(w)
        all == loadArticles(w1, files)
    IN  IF files = <<>> THEN Done(w, "build", target, "No markdown files found!", 0)
        ELSE IF filesToProcess = <<>> THEN Done(w, "build", target, "Article not found", 0)
        ELSE IF loaded.thrown # "" THEN Thrown(w, "build", target, loaded.thrown)
        ELSE IF all.thrown # "" THEN Thrown(w1, "build", target, all.thrown)
        ELSE generateOrThrow(w1, all.articles, "build", target)

\* build that leaves out a file it cannot load and writes the rest.
buildSkipping(w, target) ==
    LET files == getMarkdownFiles(w)
        filesToProcess ==
            IF target = "all" THEN files ELSE SelectSeq(files, LAMBDA f : f = target)
        w1 == copyImages(w)
        emitted == IF target # "all" /\ w1.index # NoFile THEN files ELSE filesToProcess
        loadable == SelectSeq(emitted, LAMBDA f : w.md[f] # BadMarkdown)
    IN  IF files = <<>> THEN Done(w, "build", target, "No markdown files found!", 0)
        ELSE IF filesToProcess = <<>> THEN Done(w, "build", target, "Article not found", 0)
        ELSE generateOrThrow(w1, loadArticles(w1, loadable).articles, "build", target)

\* build that afterwards removes each module no markdown file stands behind.
buildPruning(w, target) ==
    LET files == getMarkdownFiles(w)
        filesToProcess ==
            IF target = "all" THEN files ELSE SelectSeq(files, LAMBDA f : f = target)
        loaded == loadArticles(w, filesToProcess)
        w1 == copyImages(w)
        all == loadArticles(w1, files)
        r == IF target # "all" /\ w1.index # NoFile
             THEN IF all.thrown # "" THEN Thrown(w1, "build", target, all.thrown)
                  ELSE generateOrThrow(w1, all.articles, "build", target)
             ELSE generateOrThrow(w1, loaded.articles, "build", target)
        pruned == [s \in Stems |-> IF w.md[s] = NoFile THEN NoFile ELSE r.w.mods[s]]
    IN  IF files = <<>> THEN Done(w, "build", target, "No markdown files found!", 0)
        ELSE IF filesToProcess = <<>> THEN Done(w, "build", target, "Article not found", 0)
        ELSE IF loaded.thrown # "" THEN Thrown(w, "build", target, loaded.thrown)
        ELSE [r EXCEPT !.w.mods = pruned]

build(w, target) ==
    LET files == getMarkdownFiles(w)
        filesToProcess ==
            IF target = "all" THEN files ELSE SelectSeq(files, LAMBDA f : f = target)
        loaded == loadArticles(w, filesToProcess)
        w1 == copyImages(w)
        all == loadArticles(w1, files)
    IN  IF files = <<>> THEN Done(w, "build", target, "No markdown files found!", 0)
        ELSE IF filesToProcess = <<>> THEN Done(w, "build", target, "Article not found", 0)
        ELSE IF loaded.thrown # "" THEN Thrown(w, "build", target, loaded.thrown)
        ELSE IF target # "all" /\ w1.index # NoFile
        THEN IF all.thrown # ""
             THEN Thrown(w1, "build", target, all.thrown)
             ELSE generateOrThrow(w1, all.articles, "build", target)
        ELSE generateOrThrow(w1, loaded.articles, "build", target)

\* ----------------------------------------------------------------- delete

getGeneratedArticles(w) == SelectSeq(StemOrder, LAMBDA s : w.mods[s] # NoFile)

emptyIndex == [kind |-> "index", vocab |-> "literal", posts |-> <<>>, meta |-> <<>>]

\* fs.existsSync(articlePath), articlePath being OUTPUT_DATA_DIR/<slug>.ts:
\* for the slug "index" that file is the index itself.
moduleExists(w, slug) ==
    IF slug = "index" THEN w.index # NoFile
    ELSE slug \in Stems /\ w.mods[slug] # NoFile

\* fs.unlinkSync(articlePath)
unlinkModule(w, slug) ==
    IF slug = "index" THEN [w EXCEPT !.index = NoFile]
    ELSE [w EXCEPT !.mods[slug] = NoFile]

\* deleteArticle that leaves the old index when no markdown file remains.
deleteWithoutEmptyIndex(w, slug) ==
    LET w1 == unlinkModule(w, slug)
        files == getMarkdownFiles(w1)
        loaded == loadArticles(w1, files)
    IN  IF ~moduleExists(w, slug) THEN Done(w, "delete", slug, "Article not found", 0)
        ELSE IF files = <<>> THEN Done(w1, "delete", slug, "ok", 0)
        ELSE IF loaded.thrown # "" THEN Thrown(w1, "delete", slug, loaded.thrown)
        ELSE generateOrThrow(w1, loaded.articles, "delete", slug)

\* deleteArticle that regenerates the index before it looks for the module.
deleteRegeneratesFirst(w, slug) ==
    LET files == getMarkdownFiles(w)
        loaded == loadArticles(w, files)
        w0 == IF files = <<>> THEN [w EXCEPT !.index = emptyIndex]
              ELSE IF loaded.thrown # "" THEN w
              ELSE generateTypeScriptFiles(w, loaded.articles).w
    IN  IF ~moduleExists(w, slug) THEN Done(w0, "delete", slug, "Article not found", 0)
        ELSE Done(unlinkModule(w0, slug), "delete", slug, "ok", 0)

\* deleteArticle that removes the markdown source along with the module.
deleteWithSource(w, slug) ==
    LET w0 == unlinkModule(w, slug)
        w1 == IF slug \in Stems THEN [w0 EXCEPT !.md[slug] = NoFile] ELSE w0
        files == getMarkdownFiles(w1)
        loaded == loadArticles(w1, files)
    IN  IF ~moduleExists(w, slug) THEN Done(w, "delete", slug, "Article not found", 0)
        ELSE IF files = <<>> THEN Done([w1 EXCEPT !.index = emptyIndex], "delete", slug, "ok", 0)
        ELSE IF loaded.thrown # "" THEN Thrown(w1, "delete", slug, loaded.thrown)
        ELSE generateOrThrow(w1, loaded.articles, "delete", slug)

\* deleteArticle that reads the markdown files before it removes the module.
deleteLoadsFirst(w, slug) ==
    LET files == getMarkdownFiles(w)
        loaded == loadArticles(w, files)
        w1 == unlinkModule(w, slug)
    IN  IF ~moduleExists(w, slug) THEN Done(w, "delete", slug, "Article not found", 0)
        ELSE IF files = <<>> THEN Done([w1 EXCEPT !.index = emptyIndex], "delete", slug, "ok", 0)
        ELSE IF loaded.thrown # "" THEN Thrown(w, "delete", slug, loaded.thrown)
        ELSE generateOrThrow(w1, loaded.articles, "delete", slug)

deleteArticle(w, slug) ==
    LET w1 == unlinkModule(w, slug)
        files == getMarkdownFiles(w1)
        loaded == loadArticles(w1, files)
    IN  IF ~moduleExists(w, slug) THEN Done(w, "delete", slug, "Article not found", 0)
        ELSE IF files = <<>> THEN Done([w1 EXCEPT !.index = emptyIndex], "delete", slug, "ok", 0)
        ELSE IF loaded.thrown # "" THEN Thrown(w1, "delete", slug, loaded.thrown)
        ELSE generateOrThrow(w1, loaded.articles, "delete", slug)

\* ---------------------------------------------------------------- prompts

\* How one synchronous stretch of the script leaves the process: ended
\* (pc "done", with the outcome r) or waiting at a readline question.
Finished(pth, r) == [pc |-> "done", path |-> pth, listed |-> <<>>, r |-> r]

Waiting(question, pth, entries, w) ==
    [pc |-> question, path |-> pth, listed |-> entries, r |-> Done(w, "none", "", "", 0)]

\* What the operator types at a question.
Answers ==
    {"", "a", "ALL", "b", "c", "Cancel", "d", "Delete", "0", "1", " 2 ", "3",
     "alpha", "Beta", "gamma"}

\* answer.trim().toLowerCase()
trimLower(answer) ==
    CASE answer = "ALL" -> "all"
      [] answer = "Cancel" -> "cancel"
      [] answer = "Delete" -> "delete"
      [] answer = " 2 " -> "2"
      [] answer = "Beta" -> "beta"
      [] OTHER -> answer

\* /^\d+$/.test(trimmed)
isDigits(trimmed) == trimmed \in {"0", "1", "2", "3"}

\* parseInt(trimmed, 10)
parseInt(trimmed) ==
    CASE trimmed = "0" -> 0
      [] trimmed = "1" -> 1
      [] trimmed = "2" -> 2
      [] trimmed = "3" -> 3

includes(seq, x) == \E i \in DOMAIN seq : seq[i] = x

\* promptDelete up to its question: nothing generated means no question.
promptDelete(w, pth) ==
    LET articles == getGeneratedArticles(w)
    IN  IF articles = <<>>
        THEN Finished(pth, Done(w, "none", "", "No articles to delete.", 0))
        ELSE Waiting("promptDelete", pth, articles, w)

\* promptDelete's callback with the cancel words only: an empty line is
\* looked up like any other.
promptDeleteAnswerNoEmpty(w, pth, articles, answer) ==
    LET trimmed == trimLower(answer)
    IN  IF trimmed \in {"c", "cancel"}
        THEN Finished(pth, Done(w, "none", "", "Delete cancelled.", 0))
        ELSE IF isDigits(trimmed)
        THEN IF parseInt(trimmed) >= 1 /\ parseInt(trimmed) <= Len(articles)
             THEN Finished(pth, deleteArticle(w, articles[parseInt(trimmed)]))
             ELSE Finished(pth, Done(w, "none", "", "Invalid number", 0))
        ELSE IF includes(articles, trimmed)
        THEN Finished(pth, deleteArticle(w, trimmed))
        ELSE Finished(pth, Done(w, "none", "", "Article not found", 0))

\* promptDelete's callback and what main() does with the slug it resolves.
promptDeleteAnswer(w, pth, articles, answer) ==
    LET trimmed == trimLower(answer)
    IN  IF trimmed \in {"c", "cancel", ""}
        THEN Finished(pth, Done(w, "none", "", "Delete cancelled.", 0))
        ELSE IF isDigits(trimmed)
        THEN IF parseInt(trimmed) >= 1 /\ parseInt(trimmed) <= Len(articles)
             THEN Finished(pth, deleteArticle(w, articles[parseInt(trimmed)]))
             ELSE Finished(pth, Done(w, "none", "", "Invalid number", 0))
        ELSE IF includes(articles, trimmed)
        THEN Finished(pth, deleteArticle(w, trimmed))
        ELSE Finished(pth, Done(w, "none", "", "Article not found", 0))

\* promptUser up to its question: no markdown file is process.exit(1).
promptUser(w, pth) ==
    LET files == getMarkdownFiles(w)
    IN  IF files = <<>>
        THEN Finished(pth, Done(w, "none", "", "No markdown files found in blog-content/", 1))
        ELSE Waiting("promptUser", pth, files, w)

\* promptUser's callback and the build main() then runs.
promptUserAnswer(w, pth, slugs, answer) ==
    LET trimmed == trimLower(answer)
    IN  IF trimmed \in {"a", "all", ""}
        THEN Finished(pth, build(w, "all"))
        ELSE IF isDigits(trimmed)
        THEN IF parseInt(trimmed) >= 1 /\ parseInt(trimmed) <= Len(slugs)
             THEN Finished(pth, build(w, slugs[parseInt(trimmed)]))
             ELSE Finished(pth, Done(w, "none", "", "Invalid number", 1))
        ELSE IF includes(slugs, trimmed)
        THEN Finished(pth, build(w, trimmed))
        ELSE Finished(pth, Done(w, "none", "", "Article not found", 1))

\* promptAction's callback and the prompt main() enters next.
promptActionAnswer(w, pth, answer) ==
    IF trimLower(answer) \in {"d", "delete"}
    THEN promptDelete(w, pth)
    ELSE promptUser(w, pth)

\* ------------------------------------------------------------------- main

\* What a command-line argument may be.
ArgTokens ==
    {"--delete", "-d", "--delete-slug", "--all", "-a", "--verbose", "",
     "alpha", "beta", "gamma", "all", "index"}

ArgLists == UNION {[1..n -> ArgTokens] : n \in 0..MaxArgs}

\* slug.startsWith('-')
startsWithDash(arg) == arg \in {"--delete", "-d", "--delete-slug", "--all", "-a", "--verbose"}

\* args.findIndex((a) => a === '-d' || a === '--delete-slug'), 1-based here
flagIndex(args) ==
    CHOOSE i \in DOMAIN args :
        /\ args[i] \in {"-d", "--delete-slug"}
        /\ \A j \in 1..(i - 1) : args[j] \notin {"-d", "--delete-slug"}

\* main() without the check of the slug that follows -d.
mainWithoutSlugCheck(w, args) ==
    IF includes(args, "--delete")
    THEN promptDelete(w, "--delete")
    ELSE IF includes(args, "-d") \/ includes(args, "--delete-slug")
    THEN Finished("-d", deleteArticle(w, IF flagIndex(args) + 1 > Len(args)
                                         THEN Undefined
                                         ELSE args[flagIndex(args) + 1]))
    ELSE IF includes(args, "--all") \/ includes(args, "-a")
    THEN Finished("--all", build(w, "all"))
    ELSE IF Len(args) > 0 /\ ~startsWithDash(args[1])
    THEN Finished("slug", build(w, args[1]))
    ELSE Waiting("promptAction", "interactive", <<>>, w)

\* main() that looks for the build flags before the delete-slug flag.
mainBuildFlagsFirst(w, args) ==
    IF includes(args, "--delete")
    THEN promptDelete(w, "--delete")
    ELSE IF includes(args, "--all") \/ includes(args, "-a")
    THEN Finished("--all", build(w, "all"))
    ELSE IF includes(args, "-d") \/ includes(args, "--delete-slug")
    THEN IF \/ flagIndex(args) + 1 > Len(args)
            \/ args[flagIndex(args) + 1] = ""
            \/ startsWithDash(args[flagIndex(args) + 1])
         THEN Finished("-d", Done(w, "none", "", "Please provide an article slug to delete", 1))
         ELSE Finished("-d", deleteArticle(w, args[flagIndex(args) + 1]))
    ELSE IF Len(args) > 0 /\ ~startsWithDash(args[1])
    THEN Finished("slug", build(w, args[1]))
    ELSE Waiting("promptAction", "interactive", <<>>, w)

main(w, args) ==
    IF includes(args, "--delete")
    THEN promptDelete(w, "--delete")
    ELSE IF includes(args, "-d") \/ includes(args, "--delete-slug")
    THEN IF \/ flagIndex(args) + 1 > Len(args)
            \/ args[flagIndex(args) + 1] = ""
            \/ startsWithDash(args[flagIndex(args) + 1])
         THEN Finished("-d", Done(w, "none", "", "Please provide an article slug to delete", 1))
         ELSE Finished("-d", deleteArticle(w, args[flagIndex(args) + 1]))
    ELSE IF includes(args, "--all") \/ includes(args, "-a")
    THEN Finished("--all", build(w, "all"))
    ELSE IF Len(args) > 0 /\ ~startsWithDash(args[1])
    THEN Finished("slug", build(w, args[1]))
    ELSE Waiting("promptAction", "interactive", <<>>, w)

\* ---------------------------------------------------------------- actions

Init ==
    /\ md = [s \in Stems |-> NoFile]
    /\ imgSrc = NoDir
    /\ imgPub = NoDir
    /\ mods = [s \in Stems |-> NoFile]
    /\ index = NoFile
    /\ pc = "idle"
    /\ path = ""
    /\ listed = <<>>
    /\ result = NoResult
    /\ argv = <<>>
    /\ typed = NoAnswer
    /\ text = <<>>
    /\ value = NoValue

\* The process goes on as the stretch s of the script left it.
Becomes(s) ==
    /\ pc' = s.pc
    /\ path' = s.path
    /\ listed' = s.listed
    /\ md' = s.r.w.md
    /\ imgSrc' = s.r.w.imgSrc
    /\ imgPub' = s.r.w.imgPub
    /\ mods' = s.r.w.mods
    /\ index' = s.r.w.index
    /\ result' = IF s.pc = "done"
                 THEN [op |-> s.r.op, target |-> s.r.target,
                       outcome |-> s.r.outcome, exit |-> s.r.exit]
                 ELSE NoResult
    /\ UNCHANGED <<text, value>>

\* The operator runs the script with some arguments.
Main ==
    /\ pc = "idle"
    /\ \E args \in ArgLists : Becomes(main(World, args))
    /\ argv' = <<>>
    /\ typed' = NoAnswer

\* The same run, with its command line kept for the claims about dispatch
\* (and below, the same answers, with the line typed kept).
MainWithArgv ==
    /\ pc = "idle"
    /\ \E args \in ArgLists :
        /\ Becomes(main(World, args))
        /\ argv' = args
    /\ typed' = NoAnswer

AnswerAction ==
    /\ pc = "promptAction"
    /\ \E ans \in Answers : Becomes(promptActionAnswer(World, path, ans))
    /\ typed' = NoAnswer
    /\ UNCHANGED argv

AnswerActionTyped ==
    /\ pc = "promptAction"
    /\ \E ans \in Answers :
        /\ Becomes(promptActionAnswer(World, path, ans))
        /\ typed' = ans
    /\ UNCHANGED argv

AnswerUser ==
    /\ pc = "promptUser"
    /\ \E ans \in Answers : Becomes(promptUserAnswer(World, path, listed, ans))
    /\ typed' = NoAnswer
    /\ UNCHANGED argv

AnswerUserTyped ==
    /\ pc = "promptUser"
    /\ \E ans \in Answers :
        /\ Becomes(promptUserAnswer(World, path, listed, ans))
        /\ typed' = ans
    /\ UNCHANGED argv

AnswerDelete ==
    /\ pc = "promptDelete"
    /\ \E ans \in Answers : Becomes(promptDeleteAnswer(World, path, listed, ans))
    /\ typed' = NoAnswer
    /\ UNCHANGED argv

AnswerDeleteTyped ==
    /\ pc = "promptDelete"
    /\ \E ans \in Answers :
        /\ Becomes(promptDeleteAnswer(World, path, listed, ans))
        /\ typed' = ans
    /\ UNCHANGED argv

\* The process is gone; the next run starts from the files it left.
Exit ==
    /\ pc = "done"
    /\ pc' = "idle"
    /\ path' = ""
    /\ listed' = <<>>
    /\ result' = NoResult
    /\ argv' = <<>>
    /\ typed' = NoAnswer
    /\ UNCHANGED <<md, imgSrc, imgPub, mods, index, text, value>>

\* The author saves a markdown file (new, or edited).
AuthorWrites ==
    /\ pc = "idle"
    /\ \E s \in Stems, c \in Contents :
        /\ md[s] # c
        /\ md' = [md EXCEPT ![s] = c]
    /\ UNCHANGED <<imgSrc, imgPub, mods, index, pc, path, listed, result, argv, typed, text, value>>

AuthorRemoves ==
    /\ pc = "idle"
    /\ \E s \in Stems :
        /\ md[s] # NoFile
        /\ md' = [md EXCEPT ![s] = NoFile]
    /\ UNCHANGED <<imgSrc, imgPub, mods, index, pc, path, listed, result, argv, typed, text, value>>

\* The images directory as the author keeps it: a picture (a regular file)
\* and a folder of drafts (a directory).
ImageDirs ==
    {[kind |-> "dir",
      entries |-> [i \in Images |-> IF i = "drafts" THEN "subdir" ELSE "file"]]}

AuthorChangesImages ==
    /\ pc = "idle"
    /\ \E d \in {NoDir} \cup ImageDirs :
        /\ d # imgSrc
        /\ imgSrc' = d
    /\ UNCHANGED <<md, imgPub, mods, index, pc, path, listed, result, argv, typed, text, value>>

Next ==
    \/ Main
    \/ AnswerAction
    \/ AnswerUser
    \/ AnswerDelete
    \/ Exit
    \/ AuthorWrites
    \/ AuthorRemoves
    \/ AuthorChangesImages

Spec == Init /\ [][Next]_vars

\* ------------------------------------------------- the command line alone

\* Both articles, each in the file of its slug.
BothArticles == [s \in Stems |-> ArticleOf(s)]

EmptyWorld ==
    [md |-> [s \in Stems |-> NoFile], imgSrc |-> NoDir, imgPub |-> NoDir,
     mods |-> [s \in Stems |-> NoFile], index |-> NoFile]

\* File systems the script is run in: nothing generated yet, or both articles
\* generated by a build of everything; and since then the author may have
\* removed markdown files.
SeedWorlds ==
    {[g EXCEPT !.md = m] :
        g \in {EmptyWorld, build([EmptyWorld EXCEPT !.md = BothArticles], "all").w},
        m \in [Stems -> {NoFile}] \cup {[s \in Stems |-> IF s \in keep THEN ArticleOf(s) ELSE NoFile] :
                 keep \in SUBSET Stems}}

InitCli ==
    /\ \E w \in SeedWorlds :
        /\ md = w.md
        /\ imgSrc = w.imgSrc
        /\ imgPub = w.imgPub
        /\ mods = w.mods
        /\ index = w.index
    /\ pc = "idle"
    /\ path = ""
    /\ listed = <<>>
    /\ result = NoResult
    /\ argv = <<>>
    /\ typed = NoAnswer
    /\ text = <<>>
    /\ value = NoValue

NextCli ==
    \/ MainWithArgv
    \/ AnswerActionTyped
    \/ AnswerUserTyped
    \/ AnswerDeleteTyped
    \/ Exit

SpecCli == InitCli /\ [][NextCli]_vars

\* ----------------------------------------------------------------- claims

\* -------------------------------------------------- the questions alone

\* Names a listing may show: the stem of any .md file in blog-content/, of
\* any .ts file but index.ts in the generated directory.
EntryNames == {"alpha", "beta", "Beta", "3"}

MaxListed == 2

\* The listings of one to MaxListed entries, no name twice (a directory
\* holds a name once), in any order readdirSync may give.
Listings ==
    {l \in UNION {[1..n -> EntryNames] : n \in 1..MaxListed} :
        \A i, j \in DOMAIN l : i # j => l[i] # l[j]}

\* What a question's callback does with the line: resolve a value, or end
\* the process.
Resolved(x) == [kind |-> "resolve", of |-> x, said |-> ""]
ResolvedNull(msg) == [kind |-> "resolve", of |-> "null", said |-> msg]
Exited(msg) == [kind |-> "exit", of |-> "1", said |-> msg]

\* The callback of promptUser's question.
promptUserResolves(slugs, answer) ==
    LET trimmed == trimLower(answer)
    IN  IF trimmed \in {"a", "all", ""}
        THEN Resolved("all")
        ELSE IF isDigits(trimmed)
        THEN IF parseInt(trimmed) - 1 >= 0 /\ parseInt(trimmed) - 1 < Len(slugs)
             THEN Resolved(slugs[parseInt(trimmed)])
             ELSE Exited("Invalid number")
        ELSE IF includes(slugs, trimmed)
        THEN Resolved(trimmed)
        ELSE Exited("Article not found")

\* The callback of promptDelete's question.
promptDeleteResolves(articles, answer) ==
    LET trimmed == trimLower(answer)
    IN  IF trimmed \in {"c", "cancel", ""}
        THEN ResolvedNull("Delete cancelled.")
        ELSE IF isDigits(trimmed)
        THEN IF parseInt(trimmed) - 1 >= 0 /\ parseInt(trimmed) - 1 < Len(articles)
             THEN Resolved(articles[parseInt(trimmed)])
             ELSE ResolvedNull("Invalid number")
        ELSE IF includes(articles, trimmed)
        THEN Resolved(trimmed)
        ELSE ResolvedNull("Article not found")

\* A question is on the screen, under some listing.
InitPrompt ==
    /\ md = [s \in Stems |-> NoFile]
    /\ imgSrc = NoDir
    /\ imgPub = NoDir
    /\ mods = [s \in Stems |-> NoFile]
    /\ index = NoFile
    /\ pc \in {"promptUser", "promptDelete"}
    /\ path = "interactive"
    /\ listed \in Listings
    /\ result = NoResult
    /\ argv = <<>>
    /\ typed = NoAnswer
    /\ text = <<>>
    /\ value = NoValue

UserResolves ==
    /\ pc = "promptUser"
    /\ \E ans \in Answers :
        /\ value' = promptUserResolves(listed, ans)
        /\ typed' = ans
    /\ pc' = "promptUser resolved"
    /\ UNCHANGED <<md, imgSrc, imgPub, mods, index, path, listed, result, argv, text>>

DeleteResolves ==
    /\ pc = "promptDelete"
    /\ \E ans \in Answers :
        /\ value' = promptDeleteResolves(listed, ans)
        /\ typed' = ans
    /\ pc' = "promptDelete resolved"
    /\ UNCHANGED <<md, imgSrc, imgPub, mods, index, path, listed, result, argv, text>>

NextPrompt ==
    \/ UserResolves
    \/ DeleteResolves

SpecPrompt == InitPrompt /\ [][NextPrompt]_vars

\* ------------------------------------------------ the index module alone

\* The strings used as categories and tags.
Words == {"community", "faith", "family"}

\* The tags lists of a header: none, one, several, one twice.
TagLists ==
    {<<>>, <<"faith">>, <<"community">>, <<"faith", "family">>,
     <<"family", "faith">>, <<"faith", "faith">>}

MaxPosts == 3

\* The articles handed to the generator; their slugs play no part in the
\* index module's two vocabulary functions.
PostLists ==
    UNION {[1..n -> {[slug |-> "alpha",
                      meta |-> [slug |-> "alpha", category |-> c, tags |-> t]] :
                         c \in Words, t \in TagLists}] : n \in 0..MaxPosts}

\* An index.ts the script wrote: the generator's, or the empty one delete
\* writes when no markdown file is left.
InitVocab ==
    /\ md = [s \in Stems |-> NoFile]
    /\ imgSrc = NoDir
    /\ imgPub = NoDir
    /\ mods = [s \in Stems |-> NoFile]
    /\ index \in {indexModule(articles) : articles \in PostLists} \cup {emptyIndex}
    /\ pc = "index.ts"
    /\ path = ""
    /\ listed = <<>>
    /\ result = NoResult
    /\ argv = <<>>
    /\ typed = NoAnswer
    /\ text = <<>>
    /\ value = NoValue

\* The site calls getAllTags().
CallGetAllTags ==
    /\ pc = "index.ts"
    /\ pc' = "getAllTags"
    /\ value' = [kind |-> "strings", of |-> getAllTags(index)]
    /\ UNCHANGED <<md, imgSrc, imgPub, mods, index, path, listed, result, argv, typed, text>>

\* The site calls getAllCategories().
CallGetAllCategories ==
    /\ pc = "index.ts"
    /\ pc' = "getAllCategories"
    /\ value' = [kind |-> "strings", of |-> getAllCategories(index)]
    /\ UNCHANGED <<md, imgSrc, imgPub, mods, index, path, listed, result, argv, typed, text>>

NextVocab ==
    \/ CallGetAllTags
    \/ CallGetAllCategories

SpecVocab == InitVocab /\ [][NextVocab]_vars

\* ----------------------------------------------------- the content literal

\* The characters of the markup that matter to a template literal, and one
\* that does not.
\* The character ` (U+0060), which a TLA+ string cannot hold.
Backtick == "U+0060"

Chars == {"a", Backtick, "$", "\\", "{", "}"}

MaxLen == 3

\* Strings, as sequences of characters.
Strings == UNION {[1..n -> Chars] : n \in 0..MaxLen}

\* str.replace(/ch/g, by)
RECURSIVE replaceChar(_, _, _)
replaceChar(str, ch, by) ==
    IF str = <<>> THEN <<>>
    ELSE (IF Head(str) = ch THEN by ELSE <<Head(str)>>) \o replaceChar(Tail(str), ch, by)

escapeTemplate(str) ==
    replaceChar(replaceChar(str, Backtick, <<"\\", Backtick>>), "$", <<"\\", "$">>)

\* What the TypeScript compiler makes of the characters written between the
\* two backticks of `content: \`...\`,`: the string they denote; or a
\* substitution ${ that is evaluated as code; or no template literal at all,
\* when a backtick closes it early or a final backslash escapes the closing
\* backtick.
RECURSIVE templateValue(_)
templateValue(chars) ==
    IF chars = <<>>
    THEN [kind |-> "string", of |-> <<>>]
    ELSE IF Head(chars) = "\\"
    THEN IF Tail(chars) = <<>>
         THEN [kind |-> "syntax error", of |-> <<>>]
         ELSE LET rest == templateValue(Tail(Tail(chars)))
              IN  IF rest.kind = "string"
                  THEN [kind |-> "string", of |-> <<chars[2]>> \o rest.of]
                  ELSE rest
    ELSE IF Head(chars) = Backtick
    THEN [kind |-> "syntax error", of |-> <<>>]
    ELSE IF Head(chars) = "$" /\ Len(chars) > 1 /\ chars[2] = "{"
    THEN [kind |-> "substitution", of |-> <<>>]
    ELSE LET rest == templateValue(Tail(chars))
         IN  IF rest.kind = "string"
             THEN [kind |-> "string", of |-> <<Head(chars)>> \o rest.of]
             ELSE rest

\* Some markup is about to be written into a module.
InitEscape ==
    /\ md = [s \in Stems |-> NoFile]
    /\ imgSrc = NoDir
    /\ imgPub = NoDir
    /\ mods = [s \in Stems |-> NoFile]
    /\ index = NoFile
    /\ pc = "html"
    /\ path = ""
    /\ listed = <<>>
    /\ result = NoResult
    /\ argv = <<>>
    /\ typed = NoAnswer
    /\ text \in Strings
    /\ value = NoValue

\* generateTypeScriptFiles writes content: `${escapeTemplate(article.html)}`.
WriteContent ==
    /\ pc = "html"
    /\ pc' = "written"
    /\ value' = [kind |-> "literal", of |-> escapeTemplate(text)]
    /\ UNCHANGED <<md, imgSrc, imgPub, mods, index, path, listed, result, argv, typed, text>>

\* The site imports the module.
ImportContent ==
    /\ pc = "written"
    /\ pc' = "imported"
    /\ value' = templateValue(value.of)
    /\ UNCHANGED <<md, imgSrc, imgPub, mods, index, path, listed, result, argv, typed, text>>

NextEscape ==
    \/ WriteContent
    \/ ImportContent

SpecEscape == InitEscape /\ [][NextEscape]_vars

\* ----------------------------------------------------- the renderer alone

\* Markdown and markup are sequences of characters; a tag the renderer
\* inserts is one element, written here without its attributes' values
\* (none of which holds a character any later pass looks for).
Newline == "\n"

Tags ==
    {"<h1>", "</h1>", "<h2>", "</h2>", "<h3>", "</h3>", "<h4>", "</h4>",
     "<h5>", "</h5>", "<h6>", "</h6>", "<strong>", "</strong>", "<em>",
     "<em class=text-accent>", "</em>", "<blockquote>", "</blockquote>",
     "<li>", "</li>", "<ul>", "</ul>", "<p>", "</p>",
     "<a href=", " class=text-accent>", "</a>",
     "<img src=", " alt=", " class=rounded-lg />"}

\* The least index from `from` on at which str holds tok, 0 if none.
indexOf(str, tok, from) ==
    IF \E j \in from..Len(str) : str[j] = tok
    THEN CHOOSE j \in from..Len(str) :
             str[j] = tok /\ \A k \in from..(j - 1) : str[k] # tok
    ELSE 0

\* str.split('\n')
RECURSIVE split(_)
split(str) ==
    LET i == indexOf(str, Newline, 1)
    IN  IF i = 0
        THEN <<str>>
        ELSE <<SubSeq(str, 1, i - 1)>> \o split(SubSeq(str, i + 1, Len(str)))

\* lines.join('\n')
RECURSIVE join(_)
join(lines) ==
    IF Len(lines) = 1
    THEN lines[1]
    ELSE lines[1] \o <<Newline>> \o join(Tail(lines))

startsWith(str, prefix) ==
    Len(str) >= Len(prefix) /\ SubSeq(str, 1, Len(prefix)) = prefix

\* html.replace(/^prefix(.*$)/gm, 'open$1close'): every line that begins
\* with prefix; . stops at the line's end.
replaceLinePrefix(html, prefix, open, close) ==
    LET lines == split(html)
    IN  join([i \in DOMAIN lines |->
                 IF startsWith(lines[i], prefix)
                 THEN open \o SubSeq(lines[i], Len(prefix) + 1, Len(lines[i])) \o close
                 ELSE lines[i]])

\* n asterisks at index i of str.
starsAt(str, i, n) ==
    i + n - 1 <= Len(str) /\ \A k \in i..(i + n - 1) : str[k] = "*"

\* html.replace(/\*{n}(.*?)\*{n}/g, 'open$1close'): from the left, n
\* asterisks, the shortest stretch of the same line, n asterisks.
RECURSIVE replaceStars(_, _, _, _)
replaceStars(html, n, open, close) ==
    IF html = <<>>
    THEN <<>>
    ELSE LET closings == {j \in (n + 1)..Len(html) :
                             /\ starsAt(html, j, n)
                             /\ \A p \in (n + 1)..(j - 1) : html[p] # Newline}
         IN  IF starsAt(html, 1, n) /\ closings # {}
             THEN LET j == CHOOSE c \in closings : \A d \in closings : c <= d
                  IN  open \o SubSeq(html, n + 1, j - 1) \o close
                         \o replaceStars(SubSeq(html, j + n, Len(html)), n, open, close)
             ELSE <<Head(html)>> \o replaceStars(Tail(html), n, open, close)

\* Where a match of (<li ...>.*?<\/li>\n?)+ that begins at index i ends
\* (s flag: . crosses lines); 0 when there is no item at i.
RECURSIVE itemsEnd(_, _)
itemsEnd(html, i) ==
    IF i > Len(html) \/ html[i] # "<li>" \/ indexOf(html, "</li>", i + 1) = 0
    THEN 0
    ELSE LET j == indexOf(html, "</li>", i + 1)
             e == IF j + 1 <= Len(html) /\ html[j + 1] = Newline THEN j + 1 ELSE j
             more == itemsEnd(html, e + 1)
         IN  IF more = 0 THEN e ELSE more

\* The list pass without the repetition: every item its own container.
RECURSIVE wrapEachItem(_)
wrapEachItem(html) ==
    IF html = <<>>
    THEN <<>>
    ELSE LET j == indexOf(html, "</li>", 2)
             e == IF j + 1 <= Len(html) /\ html[j + 1] = Newline THEN j + 1 ELSE j
         IN  IF Head(html) # "<li>" \/ j = 0
             THEN <<Head(html)>> \o wrapEachItem(Tail(html))
             ELSE <<"<ul>">> \o SubSeq(html, 1, e) \o <<"</ul>">>
                     \o wrapEachItem(SubSeq(html, e + 1, Len(html)))

\* html.replace(/(<li ...>.*?<\/li>\n?)+/gs, (match) => `<ul ...>${match}</ul>`)
RECURSIVE wrapItems(_)
wrapItems(html) ==
    IF html = <<>>
    THEN <<>>
    ELSE LET e == itemsEnd(html, 1)
         IN  IF e = 0
             THEN <<Head(html)>> \o wrapItems(Tail(html))
             ELSE <<"<ul>">> \o SubSeq(html, 1, e) \o <<"</ul>">>
                     \o wrapItems(SubSeq(html, e + 1, Len(html)))

\* line.trim()
RECURSIVE trim(_)
trim(line) ==
    IF line = <<>> THEN <<>>
    ELSE IF Head(line) = " " THEN trim(Tail(line))
    ELSE IF line[Len(line)] = " " THEN trim(SubSeq(line, 1, Len(line) - 1))
    ELSE line

\* The paragraph pass on one line.
wrapLine(line) ==
    LET trimmed == trim(line)
    IN  IF \/ trimmed = <<>>
           \/ Head(trimmed) \in Tags
           \/ indexOf(trimmed, "</li>", 1) # 0
           \/ indexOf(trimmed, "</ul>", 1) # 0
        THEN line
        ELSE <<"<p>">> \o trimmed \o <<"</p>">>

\* html.replace(/<p class="text-gray-600 my-4"><\/p>/g, '')
RECURSIVE dropEmptyParagraphs(_)
dropEmptyParagraphs(html) ==
    IF html = <<>> THEN <<>>
    ELSE IF Len(html) >= 2 /\ html[1] = "<p>" /\ html[2] = "</p>"
    THEN dropEmptyParagraphs(SubSeq(html, 3, Len(html)))
    ELSE <<Head(html)>> \o dropEmptyParagraphs(Tail(html))

\* How many characters other than stop follow one another from index i on.
RECURSIVE runOfNot(_, _, _)
runOfNot(str, stop, i) ==
    IF i > Len(str) \/ str[i] = stop THEN 0 ELSE 1 + runOfNot(str, stop, i + 1)

\* A match of \[([^\]]{least,})\]\(([^)]+)\) at index i of str: the indexes
\* of its ] and of its closing ), or no match.
bracketsAt(str, i, least) ==
    LET t == runOfNot(str, "]", i + 1)
        p == i + 1 + t
        u == runOfNot(str, ")", p + 2)
        q == p + 2 + u
    IN  IF /\ i <= Len(str) /\ str[i] = "["
           /\ t >= least
           /\ p + 1 <= Len(str) /\ str[p] = "]" /\ str[p + 1] = "("
           /\ u >= 1
           /\ q <= Len(str) /\ str[q] = ")"
        THEN [found |-> TRUE, bracket |-> p, paren |-> q]
        ELSE [found |-> FALSE, bracket |-> 0, paren |-> 0]

\* html.replace(/\[([^\]]+)\]\(([^)]+)\)/g, '<a href="$2" class="...">$1</a>')
RECURSIVE replaceLinks(_)
replaceLinks(html) ==
    IF html = <<>>
    THEN <<>>
    ELSE LET m == bracketsAt(html, 1, 1)
         IN  IF m.found
             THEN <<"<a href=">> \o SubSeq(html, m.bracket + 2, m.paren - 1)
                     \o <<" class=text-accent>">> \o SubSeq(html, 2, m.bracket - 1)
                     \o <<"</a>">> \o replaceLinks(SubSeq(html, m.paren + 1, Len(html)))
             ELSE <<Head(html)>> \o replaceLinks(Tail(html))

\* html.replace(/!\[([^\]]*)\]\(([^)]+)\)/g, '<img src="$2" alt="$1" class="..." />')
RECURSIVE replaceImages(_)
replaceImages(html) ==
    IF html = <<>>
    THEN <<>>
    ELSE LET m == bracketsAt(html, 2, 0)
         IN  IF Head(html) = "!" /\ m.found
             THEN <<"<img src=">> \o SubSeq(html, m.bracket + 2, m.paren - 1)
                     \o <<" alt=">> \o SubSeq(html, 3, m.bracket - 1)
                     \o <<" class=rounded-lg />">>
                     \o replaceImages(SubSeq(html, m.paren + 1, Len(html)))
             ELSE <<Head(html)>> \o replaceImages(Tail(html))

\* The passes of markdownToHtml, in the order of the source.
headers(html) ==
    LET h6 == replaceLinePrefix(html, <<"#", "#", "#", "#", "#", "#", " ">>, <<"<h6>">>, <<"</h6>">>)
        h5 == replaceLinePrefix(h6, <<"#", "#", "#", "#", "#", " ">>, <<"<h5>">>, <<"</h5>">>)
        h4 == replaceLinePrefix(h5, <<"#", "#", "#", "#", " ">>, <<"<h4>">>, <<"</h4>">>)
        h3 == replaceLinePrefix(h4, <<"#", "#", "#", " ">>, <<"<h3>">>, <<"</h3>">>)
        h2 == replaceLinePrefix(h3, <<"#", "#", " ">>, <<"<h2>">>, <<"</h2>">>)
    IN  replaceLinePrefix(h2, <<"#", " ">>, <<"<h1>">>, <<"</h1>">>)

emphasis(html) ==
    LET triple == replaceStars(html, 3, <<"<strong>", "<em>">>, <<"</em>", "</strong>">>)
        double == replaceStars(triple, 2, <<"<strong>">>, <<"</strong>">>)
    IN  replaceStars(double, 1, <<"<em class=text-accent>">>, <<"</em>">>)

blocks(html) ==
    LET quoted == replaceLinePrefix(html, <<">", " ">>, <<"<blockquote>">>, <<"</blockquote>">>)
        items == replaceLinePrefix(quoted, <<"-", " ">>, <<"<li>">>, <<"</li>">>)
    IN  wrapItems(items)

paragraphs(html) ==
    LET lines == split(html)
    IN  dropEmptyParagraphs(join([i \in DOMAIN lines |-> wrapLine(lines[i])]))

markdownToHtml(markdown) ==
    replaceImages(replaceLinks(paragraphs(blocks(emphasis(headers(markdown))))))

\* The lines an article body is made of here.
BodyLines ==
    {<<>>,
     <<"a">>,
     <<"-", " ", "a">>,
     <<"-", " ", "[", "a", "]", "(", "u", ")">>,
     <<"#", " ", "!", "[", "a", "]", "(", "u", ")">>,
     <<"!", "[", "]", "(", "u", ")">>,
     <<"*", "*", "b", " ", "*", "a", "*", " ", "b", "*", "*">>,
     <<"*", "*", "b", " ", "*", "a", "*", "*", "*">>,
     <<"*", "*", "*", "a", "*", "*", "*">>,
     <<"-", " ", "*", "a", "*">>}

MaxLines == 3

Bodies == {join(lines) : lines \in UNION {[1..n -> BodyLines] : n \in 1..MaxLines}}

\* processMarkdownFile is about to render some body.
InitRender ==
    /\ md = [s \in Stems |-> NoFile]
    /\ imgSrc = NoDir
    /\ imgPub = NoDir
    /\ mods = [s \in Stems |-> NoFile]
    /\ index = NoFile
    /\ pc = "body"
    /\ path = ""
    /\ listed = <<>>
    /\ result = NoResult
    /\ argv = <<>>
    /\ typed = NoAnswer
    /\ text \in Bodies
    /\ value = NoValue

Render ==
    /\ pc = "body"
    /\ pc' = "html"
    /\ value' = [kind |-> "html", of |-> markdownToHtml(text)]
    /\ UNCHANGED <<md, imgSrc, imgPub, mods, index, path, listed, result, argv, typed, text>>

NextRender == Render

SpecRender == InitRender /\ [][NextRender]_vars

\* ------------------------------------------------ the header block alone

\* frontmatter[key] = v
assign(frontmatter, key, v) ==
    [k \in (DOMAIN frontmatter) \cup {key} |-> IF k = key THEN v ELSE frontmatter[k]]

Scalar(str) == [kind |-> "string", of |-> str]

Array(items) == [kind |-> "array", of |-> items]

\* The loop's variables before the first line.
headerStart ==
    [frontmatter |-> [k \in {} |-> Scalar(<<>>)],
     currentKey |-> <<>>,
     inArray |-> FALSE,
     arrayItems |-> <<>>]

\* The key: value part of the loop's body.
keyLine(st, line) ==
    LET colonIndex == indexOf(line, ":", 1)
        key == trim(SubSeq(line, 1, colonIndex - 1))
        val == trim(SubSeq(line, colonIndex + 1, Len(line)))
    IN  IF colonIndex > 1
        THEN IF val = <<>>
             THEN [st EXCEPT !.currentKey = key, !.inArray = TRUE, !.arrayItems = <<>>]
             ELSE [st EXCEPT !.frontmatter = assign(st.frontmatter, key, Scalar(val))]
        ELSE st

\* The loop's body with a blank line ending the list in progress.
headerLineBlankCloses(st, line) ==
    LET trimmedLine == trim(line)
        closed == [st EXCEPT !.frontmatter = assign(st.frontmatter, st.currentKey,
                                                    Array(st.arrayItems)),
                             !.inArray = FALSE,
                             !.arrayItems = <<>>]
    IN  IF trimmedLine = <<>>
        THEN IF st.inArray THEN closed ELSE st
        ELSE IF startsWith(trimmedLine, <<"-", " ">>) /\ st.inArray
        THEN [st EXCEPT !.arrayItems = Append(st.arrayItems,
                                              trim(SubSeq(trimmedLine, 3, Len(trimmedLine))))]
        ELSE IF st.inArray
        THEN keyLine(closed, line)
        ELSE keyLine(st, line)

\* The body of `for (const line of lines)`.
headerLine(st, line) ==
    LET trimmedLine == trim(line)
        closed == [st EXCEPT !.frontmatter = assign(st.frontmatter, st.currentKey,
                                                    Array(st.arrayItems)),
                             !.inArray = FALSE,
                             !.arrayItems = <<>>]
    IN  IF trimmedLine = <<>>
        THEN st
        ELSE IF startsWith(trimmedLine, <<"-", " ">>) /\ st.inArray
        THEN [st EXCEPT !.arrayItems = Append(st.arrayItems,
                                              trim(SubSeq(trimmedLine, 3, Len(trimmedLine))))]
        ELSE IF st.inArray
        THEN keyLine(closed, line)
        ELSE keyLine(st, line)

RECURSIVE headerLoop(_, _)
headerLoop(st, lines) ==
    IF lines = <<>> THEN st ELSE headerLoop(headerLine(st, Head(lines)), Tail(lines))

\* The record as the loop left it, tags or no tags.
tagsAsParsed(frontmatter) == frontmatter

\* if (!Array.isArray(frontmatter.tags)) frontmatter.tags = []
ensureTags(frontmatter) ==
    IF <<"tags">> \in DOMAIN frontmatter /\ frontmatter[<<"tags">>].kind = "array"
    THEN frontmatter
    ELSE assign(frontmatter, <<"tags">>, Array(<<>>))

\* parseFrontmatter from the header block it matched on: the record it
\* returns as frontmatter.
parseFrontmatterStr(frontmatterStr) ==
    LET st == headerLoop(headerStart, split(frontmatterStr))
    IN  ensureTags(IF st.inArray
                   THEN assign(st.frontmatter, st.currentKey, Array(st.arrayItems))
                   ELSE st.frontmatter)

\* The lines a header block is made of here; a key is one element.
HeaderLines ==
    {<<>>,
     <<" ">>,
     <<"tags", ":">>,
     <<"tags", ":", " ", "x">>,
     <<"title", ":", " ", "x", " ">>,
     <<"title", ":">>,
     <<"-", " ", "x">>,
     <<" ", " ", "-", " ", "y">>,
     <<"-", "x">>}

MaxHeader == 4

Headers == {join(lines) : lines \in UNION {[1..n -> HeaderLines] : n \in 1..MaxHeader}}

\* parseFrontmatter has matched some header block.
InitHeader ==
    /\ md = [s \in Stems |-> NoFile]
    /\ imgSrc = NoDir
    /\ imgPub = NoDir
    /\ mods = [s \in Stems |-> NoFile]
    /\ index = NoFile
    /\ pc = "frontmatterStr"
    /\ path = ""
    /\ listed = <<>>
    /\ result = NoResult
    /\ argv = <<>>
    /\ typed = NoAnswer
    /\ text \in Headers
    /\ value = NoValue

ParseHeader ==
    /\ pc = "frontmatterStr"
    /\ pc' = "frontmatter"
    /\ value' = [kind |-> "frontmatter", of |-> parseFrontmatterStr(text)]
    /\ UNCHANGED <<md, imgSrc, imgPub, mods, index, path, listed, result, argv, typed, text>>

NextHeader == ParseHeader

SpecHeader == InitHeader /\ [][NextHeader]_vars

\* ------------------------------------------------- the whole file's text

\* body.trim(): blanks and line ends at both ends.
RECURSIVE trimBody(_)
trimBody(str) ==
    IF str = <<>> THEN <<>>
    ELSE IF Head(str) \in {" ", Newline} THEN trimBody(Tail(str))
    ELSE IF str[Len(str)] \in {" ", Newline} THEN trimBody(SubSeq(str, 1, Len(str) - 1))
    ELSE str

\* \n---\n at index j of content.
closingAt(content, j) ==
    /\ j + 4 <= Len(content)
    /\ SubSeq(content, j, j + 4) = <<Newline, "-", "-", "-", Newline>>

\* content.match(/^---\n([\s\S]*?)\n---\n([\s\S]*)$/): the shortest header
\* that a \n---\n follows; the opening ---\n is not part of it.
matchFrontmatter(content) ==
    LET closings == {j \in 5..Len(content) : closingAt(content, j)}
    IN  IF startsWith(content, <<"-", "-", "-", Newline>>) /\ closings # {}
        THEN LET j == CHOOSE c \in closings : \A d \in closings : c <= d
             IN  [found |-> TRUE,
                  frontmatterStr |-> SubSeq(content, 5, j - 1),
                  body |-> SubSeq(content, j + 5, Len(content))]
        ELSE [found |-> FALSE, frontmatterStr |-> <<>>, body |-> <<>>]

\* parseFrontmatter on the text of a file.
parseFrontmatterText(content) ==
    LET match == matchFrontmatter(content)
    IN  IF ~match.found
        THEN [thrown |-> "Invalid frontmatter format"]
        ELSE [thrown |-> "",
              frontmatter |-> parseFrontmatterStr(match.frontmatterStr),
              body |-> trimBody(match.body)]

\* The lines a markdown file is made of here.
FileLines ==
    {<<"-", "-", "-">>,
     <<"title", ":", " ", "x">>,
     <<>>,
     <<"a">>}

MaxFile == 5

\* The files of one to MaxFile lines; a last line that is empty is a file
\* that ends with a line end.
FileTexts == {join(lines) : lines \in UNION {[1..n -> FileLines] : n \in 1..MaxFile}}

\* processMarkdownFile has read some file.
InitText ==
    /\ md = [s \in Stems |-> NoFile]
    /\ imgSrc = NoDir
    /\ imgPub = NoDir
    /\ mods = [s \in Stems |-> NoFile]
    /\ index = NoFile
    /\ pc = "content"
    /\ path = ""
    /\ listed = <<>>
    /\ result = NoResult
    /\ argv = <<>>
    /\ typed = NoAnswer
    /\ text \in FileTexts
    /\ value = NoValue

ParseText ==
    /\ pc = "content"
    /\ pc' = "parsed"
    /\ value' = parseFrontmatterText(text)
    /\ UNCHANGED <<md, imgSrc, imgPub, mods, index, path, listed, result, argv, typed, text>>

NextText == ParseText

SpecText == InitText /\ [][NextText]_vars

\* ------------------------------------------------- the article loader alone

\* The value of frontmatter[key], undefined for a key the header lacks.
UndefinedValue == [kind |-> "undefined", of |-> <<>>]

field(frontmatter, key) ==
    IF key \in DOMAIN frontmatter THEN frontmatter[key] ELSE UndefinedValue

\* str.replace('images/', ''): the first occurrence only; the prefix is one
\* element here.
removeFirst(str, tok) ==
    LET i == indexOf(str, tok, 1)
    IN  IF i = 0 THEN str ELSE SubSeq(str, 1, i - 1) \o SubSeq(str, i + 1, Len(str))

\* processMarkdownFile on the text of a file. An array is truthy and has no
\* startsWith: the call throws a TypeError.
processMarkdownFileText(content) ==
    LET parsed == parseFrontmatterText(content)
        image == field(parsed.frontmatter, <<"featuredImage">>)
    IN  IF parsed.thrown # ""
        THEN [thrown |-> parsed.thrown]
        ELSE IF image.kind = "array"
        THEN [thrown |-> "frontmatter.featuredImage.startsWith is not a function"]
        ELSE [thrown |-> "",
              slug |-> field(parsed.frontmatter, <<"slug">>),
              meta |-> IF image.kind = "string" /\ startsWith(image.of, <<"images/">>)
                       THEN assign(parsed.frontmatter, <<"featuredImage">>,
                                   Scalar(<<"/", "images/", "blog/">>
                                             \o removeFirst(image.of, "images/")))
                       ELSE parsed.frontmatter,
              html |-> markdownToHtml(parsed.body)]

\* The header lines of the articles loaded here.
MetaLines ==
    {<<"slug", ":", " ", "alpha">>,
     <<"featuredImage", ":", " ", "images/", "a.png">>,
     <<"featuredImage", ":", " ", "images/", "x", "images/", "a.png">>,
     <<"featuredImage", ":", " ", "/", "images/", "blog/", "a.png">>,
     <<"featuredImage", ":", " ", "x", "images/", "a.png">>,
     <<"featuredImage", ":", " ", "images/">>,
     <<"featuredImage", ":">>,
     <<"-", " ", "a.png">>}

MaxMeta == 3

\* Files with a header of one to MaxMeta lines and a one-line body.
ArticleTexts ==
    {join(<<(<<"-", "-", "-">>)>> \o lines \o <<(<<"-", "-", "-">>), (<<"a">>)>>) :
        lines \in UNION {[1..n -> MetaLines] : n \in 1..MaxMeta}}

InitLoad ==
    /\ md = [s \in Stems |-> NoFile]
    /\ imgSrc = NoDir
    /\ imgPub = NoDir
    /\ mods = [s \in Stems |-> NoFile]
    /\ index = NoFile
    /\ pc = "filePath"
    /\ path = ""
    /\ listed = <<>>
    /\ result = NoResult
    /\ argv = <<>>
    /\ typed = NoAnswer
    /\ text \in ArticleTexts
    /\ value = NoValue

Load ==
    /\ pc = "filePath"
    /\ pc' = "loaded"
    /\ value' = processMarkdownFileText(text)
    /\ UNCHANGED <<md, imgSrc, imgPub, mods, index, path, listed, result, argv, typed, text>>

NextLoad == Load

SpecLoad == InitLoad /\ [][NextLoad]_vars

\* ------------------------------------------- the output directory by name
\*
\* generateTypeScriptFiles once more, on a directory keyed by file name, so
\* that an article's <slug>.ts and the index.ts are files of one directory.

\* Filename stems of a blog-content/ that also holds an index.md, in the
\* order readdirSync lists them.
NameOrder == <<"alpha", "beta", "index">>

Names == {NameOrder[i] : i \in 1..Len(NameOrder)}

\* What such a file may hold: no header block, or a header naming any slug
\* or none.
NamedContents ==
    {BadMarkdown} \cup {Markdown(s, "faith", <<"faith">>) : s \in Names \cup {Undefined}}

\* blog-content/ as the author may have left it.
SourceDirs == [Names -> NamedContents \cup {NoFile}]

\* OUTPUT_DATA_DIR with no file in it.
EmptyDir == [n \in Names |-> NoFile]

\* The loop writing OUTPUT_DATA_DIR/<slug>.ts for each article.
RECURSIVE writeFiles(_, _)
writeFiles(dir, articles) ==
    IF articles = <<>>
    THEN [thrown |-> "", dir |-> dir]
    ELSE LET a == Head(articles)
         IN  IF a.slug = Undefined
             THEN [thrown |-> "Cannot read properties of undefined", dir |-> dir]
             ELSE writeFiles([dir EXCEPT ![a.slug] = articleModule(a)], Tail(articles))

\* generateTypeScriptFiles: the article files, then OUTPUT_DATA_DIR/index.ts.
generateFiles(dir, articles) ==
    LET wr == writeFiles(dir, articles)
    IN  IF wr.thrown # ""
        THEN wr
        ELSE [thrown |-> "", dir |-> [wr.dir EXCEPT !["index"] = indexModule(articles)]]

\* build('all') over these sources, the output directory being dir.
buildAllFiles(sources, dir) ==
    LET files == SelectSeq(NameOrder, LAMBDA n : sources[n] # NoFile)
        loaded == loadArticles([md |-> sources], files)
    IN  IF files = <<>> THEN [thrown |-> "", dir |-> dir]
        ELSE IF loaded.thrown # "" THEN [thrown |-> loaded.thrown, dir |-> dir]
        ELSE generateFiles(dir, loaded.articles)

InitOutput ==
    /\ md = [s \in Stems |-> NoFile]
    /\ imgSrc = NoDir
    /\ imgPub = NoDir
    /\ mods = [s \in Stems |-> NoFile]
    /\ index = NoFile
    /\ pc = "sources"
    /\ path = ""
    /\ listed = <<>>
    /\ result = NoResult
    /\ argv = <<>>
    /\ typed = NoAnswer
    /\ text \in SourceDirs
    /\ value = NoValue

BuildAll ==
    /\ pc = "sources"
    /\ pc' = "built"
    /\ value' = buildAllFiles(text, EmptyDir)
    /\ UNCHANGED <<md, imgSrc, imgPub, mods, index, path, listed, result, argv, typed, text>>

NextOutput == BuildAll

SpecOutput == InitOutput /\ [][NextOutput]_vars

\* A step in which a run of the script ends.
Finishes == pc # "done" /\ pc' = "done"

\* A step of the script (not of the author).
ScriptStep == pc # "idle" \/ pc' # "idle"

\* The slugs the index maps (the keys of blogPosts).
indexSlugs(idx) == {idx.posts[i] : i \in DOMAIN idx.posts}

\* In file system w the index lists exactly the articles of the markdown
\* files on disk, in their order.
indexOfAllOnDisk(w) ==
    LET onDisk == loadArticles(w, getMarkdownFiles(w))
    IN  /\ onDisk.thrown = ""
        /\ w.index # NoFile
        /\ w.index.posts = [i \in 1..Len(onDisk.articles) |-> onDisk.articles[i].slug]
        /\ w.index.meta = [i \in 1..Len(onDisk.articles) |-> onDisk.articles[i].meta]

DeleteSucceeded == pc = "done" /\ result.op = "delete" /\ result.outcome = "ok"

\* C1: after a delete-one(slug) that completes successfully, the index has no
\* entry for slug and has exactly one entry per markdown file on disk.
C1_DeletedSlugLeavesIndex ==
    DeleteSucceeded =>
        /\ index # NoFile
        /\ result.target \notin indexSlugs(index)
        /\ Len(index.meta) = Len(getMarkdownFiles(World))

\* C2: in every reachable state the index references no slug whose module is
\* missing and omits no slug whose module is present.
C2_IndexMatchesModules ==
    index # NoFile =>
        \A s \in Stems : (s \in indexSlugs(index)) <=> (mods[s] # NoFile)

\* C3 (as claimed): whenever build-all, build-one or delete-one has written an
\* index, the index lists exactly the markdown articles on disk.
C3_IndexAlwaysOfAll ==
    (pc = "done" /\ result.op \in {"build", "delete"} /\ result.outcome = "ok")
        => indexOfAllOnDisk(World)

\* C3 (amended): a run of build-all, of delete-one, or of build-one that found
\* a generated index, when it succeeds, leaves an index that lists exactly the
\* markdown articles on disk; build-one that found no index is the exception.
C3_IndexOfAllUnlessFirstBuildOne ==
    [][(/\ Finishes
        /\ result'.op \in {"build", "delete"}
        /\ result'.outcome = "ok"
        /\ ~(result'.op = "build" /\ result'.target # "all" /\ index = NoFile))
       => indexOfAllOnDisk(World')]_vars

C3_Witness ==
    /\ pc = "done"
    /\ result.op = "build"
    /\ result.target = "beta"
    /\ result.outcome = "ok"
    /\ index # NoFile
    /\ Len(index.posts) = 2

\* The module of the last of the articles that has slug s.
lastModuleFor(articles, s) ==
    LET i == CHOOSE k \in DOMAIN articles :
                 /\ articles[k].slug = s
                 /\ \A j \in DOMAIN articles : articles[j].slug = s => j <= k
    IN  [kind |-> "module", meta |-> articles[i].meta]

\* C4: a successful build-one(slug), when no index existed, writes exactly the
\* requested article's module and an index of that article alone; when an
\* index existed, it writes the module of every markdown file on disk and an
\* index of them all.
C4_BuildOne ==
    [][(/\ Finishes
        /\ result'.op = "build"
        /\ result'.target # "all"
        /\ result'.outcome = "ok")
       => LET a == processMarkdownFile(md[result'.target])
              onDisk == loadArticles(World, getMarkdownFiles(World))
              all == onDisk.articles
          IN  IF index = NoFile
              THEN /\ \A s \in Stems :
                        mods'[s] = IF s = a.slug
                                   THEN [kind |-> "module", meta |-> a.meta]
                                   ELSE mods[s]
                   /\ index' # NoFile
                   /\ index'.posts = <<a.slug>>
                   /\ index'.meta = <<a.meta>>
              ELSE /\ onDisk.thrown = ""
                   /\ \A s \in Stems :
                        mods'[s] = IF \E i \in DOMAIN all : all[i].slug = s
                                   THEN lastModuleFor(all, s)
                                   ELSE mods[s]
                   /\ indexOfAllOnDisk(World')]_vars

\* build-one of one of two articles, with no index before it: one module.
C4_WitnessNoIndex ==
    /\ pc = "done"
    /\ result.op = "build"
    /\ result.target = "alpha"
    /\ result.outcome = "ok"
    /\ md["beta"] = ArticleOf("beta")
    /\ mods["beta"] = NoFile
    /\ mods["alpha"] # NoFile
    /\ Len(index.posts) = 1

\* C5: delete-one of an existing module with no markdown file left on disk
\* ends without error and leaves an index file with an empty mapping, an empty
\* listing, and empty category and tag vocabularies.
C5_DeleteLastLeavesEmptyIndex ==
    [][(/\ Finishes
        /\ result'.op = "delete"
        /\ moduleExists(World, result'.target)
        /\ getMarkdownFiles(World) = <<>>)
       => /\ result'.outcome = "ok"
          /\ result'.exit = 0
          /\ index' # NoFile
          /\ index'.posts = <<>>
          /\ index'.meta = <<>>
          /\ getAllCategories(index') = <<>>
          /\ getAllTags(index') = <<>>]_vars

\* The index listed two articles; both sources are gone and one was deleted.
C5_Witness ==
    /\ DeleteSucceeded
    /\ getMarkdownFiles(World) = <<>>
    /\ index # NoFile
    /\ index.posts = <<>>
    /\ \E s \in Stems : mods[s] # NoFile

\* C6: delete-one(slug) with no generated module for slug reports "Article not
\* found" and neither writes nor removes any file of the output directory.
C6_DeleteMissingChangesNothing ==
    [][(/\ Finishes
        /\ result'.op = "delete"
        /\ ~moduleExists(World, result'.target))
       => /\ result'.outcome = "Article not found"
          /\ mods' = mods
          /\ index' = index]_vars

\* A missing slug, while the index on disk is stale (it lacks an article that
\* a regeneration would add).
C6_Witness ==
    /\ pc = "done"
    /\ result.op = "delete"
    /\ result.outcome = "Article not found"
    /\ index # NoFile
    /\ Len(index.posts) = 1
    /\ Len(getMarkdownFiles(World)) = 2

\* C7: a not-found slug in a flag-driven run (-d <slug> without its module,
\* <slug> without its markdown file) ends the process with a non-zero exit.
C7_NotFoundExitsNonZero ==
    (pc = "done" /\ path \in {"-d", "slug"} /\ result.outcome = "Article not found")
        => result.exit # 0

\* C8: a second build-all, with no source changed in between, leaves every
\* generated module, the index and the public images as the first left them.
C8_BuildAllIdempotent ==
    LET first == build(World, "all")
        second == build(first.w, "all")
    IN  /\ second.w = first.w
        /\ second.outcome = first.outcome

\* Right after a build-all of two articles: a second one would change nothing.
C8_Witness ==
    /\ pc = "done"
    /\ result.op = "build"
    /\ result.target = "all"
    /\ result.outcome = "ok"
    /\ Len(index.posts) = 2
    /\ imgPub # NoDir
    /\ build(World, "all").w = World

\* The first -d / --delete-slug of the command line has no slug after it.
lacksSlug(args) ==
    /\ includes(args, "-d") \/ includes(args, "--delete-slug")
    /\ \/ flagIndex(args) + 1 > Len(args)
       \/ startsWithDash(args[flagIndex(args) + 1])

FailedLoudly ==
    /\ pc = "done"
    /\ result.exit = 1
    /\ result.outcome = "Please provide an article slug to delete"

\* C9 (as claimed): -d / --delete-slug with no following argument, or followed
\* by an argument that starts with -, prints an error and exits non-zero
\* without a prompt.
C9_MissingSlugFailsLoudly ==
    (pc # "idle" /\ lacksSlug(argv)) => FailedLoudly

\* C9 (amended): the same, when --delete is not among the arguments; and the
\* run then neither deletes nor writes a generated file.
C9_MissingSlugFailsLoudlyUnlessDelete ==
    [][(/\ pc = "idle"
        /\ pc' # "idle"
        /\ lacksSlug(argv')
        /\ ~includes(argv', "--delete"))
       => /\ FailedLoudly'
          /\ mods' = mods
          /\ index' = index
          /\ imgPub' = imgPub]_vars

\* -d followed by a flag, with a module there to delete.
C9_Witness ==
    /\ FailedLoudly
    /\ argv = <<"-d", "--all">>
    /\ mods["alpha"] # NoFile

\* C10: no step of the script creates, changes or removes a markdown file or
\* an entry of the source images directory.
C10_SourcesReadOnly ==
    [][ScriptStep => (md' = md /\ imgSrc' = imgSrc)]_vars

\* A delete that succeeded while the article's source and the images exist.
C10_Witness ==
    /\ DeleteSucceeded
    /\ result.target \in Stems
    /\ md[result.target] # NoFile
    /\ imgSrc # NoDir

\* C11: at the delete question an empty line or a cancel word ends the run
\* with "Delete cancelled.", exit code 0 and every file as it was; at the
\* build question an empty line builds everything; and at the action
\* question d / delete leads to the delete question (or to its "nothing to
\* delete" ending), every other line, the empty one included, to the build
\* question (or to its "no markdown files" ending).
C11_EmptyAndCancelAnswers ==
    [][/\ (pc = "promptDelete" /\ trimLower(typed') \in {"", "c", "cancel"})
            => /\ pc' = "done"
               /\ result'.outcome = "Delete cancelled."
               /\ result'.exit = 0
               /\ World' = World
       /\ (pc = "promptUser" /\ typed' = "")
            => /\ pc' = "done"
               /\ result'.op = "build"
               /\ result'.target = "all"
       /\ (pc = "promptAction" /\ trimLower(typed') \in {"d", "delete"})
            => \/ pc' = "promptDelete"
               \/ pc' = "done" /\ result'.outcome = "No articles to delete."
       /\ (pc = "promptAction" /\ pc' # "promptAction"
             /\ trimLower(typed') \notin {"d", "delete"})
            => \/ pc' = "promptUser"
               \/ /\ pc' = "done"
                  /\ result'.outcome = "No markdown files found in blog-content/"
      ]_vars

\* An empty line at the delete question of an interactive run, with a
\* generated article it could have deleted.
C11_Witness ==
    /\ pc = "done"
    /\ path = "interactive"
    /\ typed = ""
    /\ result.outcome = "Delete cancelled."
    /\ \E s \in Stems : mods[s] # NoFile

\* The decimal number typed (blanks around it aside), 0 when the line is
\* no number.
typedNumber ==
    CASE typed = "1" -> 1
      [] typed = " 2 " -> 2
      [] typed = "3" -> 3
      [] OTHER -> 0

\* C12: at a target question listing N entries, a decimal number k with
\* 1 <= k <= N selects the k-th entry, a line equal to a listed name selects
\* that name, and every other line that is neither empty nor a cancel word
\* (0 and numbers above N included) selects nothing: the callback resolves
\* no target, so nothing is built or deleted for it.
C12_TargetSelection ==
    (pc \in {"promptUser resolved", "promptDelete resolved"}) =>
        /\ (typedNumber >= 1 /\ typedNumber <= Len(listed))
             => value = Resolved(listed[typedNumber])
        /\ includes(listed, typed) => value = Resolved(typed)
        /\ (/\ ~(typedNumber >= 1 /\ typedNumber <= Len(listed))
            /\ ~includes(listed, typed)
            /\ trimLower(typed) \notin {"", "c", "cancel"})
             => value \in {Exited(value.said), ResolvedNull(value.said)}

\* C13: a target that is invalid or not found (0, a number above the two
\* entries a listing can have, a name no listing holds) does not end the
\* process: the same question is asked again, at the build question and at
\* the delete question.
C13_AsksAgain ==
    [][(pc \in {"promptUser", "promptDelete"} /\ typed' \in {"0", "3", "gamma"})
         => pc' = pc]_vars

\* A sequence of strings in strictly ascending order of code units: sorted,
\* and no string twice.
strictlyAscending(strs) ==
    \A i \in 1..(Len(strs) - 1) : codeUnitsLess(codeUnits(strs[i]), codeUnits(strs[i + 1]))

elements(seq) == {seq[i] : i \in DOMAIN seq}

\* C14: getAllTags() returns exactly the tags of all articles of the index
\* and getAllCategories() exactly their categories, each string once, in
\* ascending lexicographic order; so for the generator's index as for the
\* empty index a delete leaves.
C14_VocabularySortedUnion ==
    /\ pc = "getAllTags" =>
        /\ elements(value.of) = UNION {elements(index.meta[i].tags) : i \in DOMAIN index.meta}
        /\ strictlyAscending(value.of)
    /\ pc = "getAllCategories" =>
        /\ elements(value.of) = {index.meta[i].category : i \in DOMAIN index.meta}
        /\ strictlyAscending(value.of)

\* Tags faith, family / faith / community give community, faith, family.
C14_Witness ==
    /\ pc = "getAllTags"
    /\ Len(index.meta) = 3
    /\ index.meta[1].tags = <<"faith", "family">>
    /\ index.meta[2].tags = <<"faith">>
    /\ index.meta[3].tags = <<"community">>
    /\ value.of = <<"community", "faith", "family">>

\* C15: the content literal written for any markup is a valid template
\* literal that evaluates back to exactly that markup.
C15_ContentRoundTrip ==
    pc = "imported" => value = [kind |-> "string", of |-> text]

\* The inline forms a body holds, from the left: ![alt](url) is an image,
\* any other [text](url) a link.
RECURSIVE formsOf(_)
formsOf(str) ==
    IF str = <<>>
    THEN <<>>
    ELSE IF Head(str) = "!" /\ bracketsAt(str, 2, 0).found
    THEN <<"image">> \o formsOf(SubSeq(str, bracketsAt(str, 2, 0).paren + 1, Len(str)))
    ELSE IF bracketsAt(str, 1, 1).found
    THEN <<"link">> \o formsOf(SubSeq(str, bracketsAt(str, 1, 1).paren + 1, Len(str)))
    ELSE formsOf(Tail(str))

\* The link and image elements of some markup, from the left.
RECURSIVE elementsOf(_)
elementsOf(html) ==
    IF html = <<>> THEN <<>>
    ELSE (CASE Head(html) = "<a href=" -> <<"link">>
            [] Head(html) = "<img src=" -> <<"image">>
            [] OTHER -> <<>>) \o elementsOf(Tail(html))

\* C16: every [text](url) of the body becomes a link element and every
\* ![alt](url) an image element (not a link after a "!"), in headers and
\* list items as elsewhere.
C16_LinksAndImages ==
    pc = "html" => elementsOf(value.of) = formsOf(text)

\* The lengths of the maximal runs of consecutive "- item" lines.
RECURSIVE runLengths(_, _)
runLengths(lines, k) ==
    IF lines = <<>>
    THEN IF k > 0 THEN <<k>> ELSE <<>>
    ELSE IF startsWith(Head(lines), <<"-", " ">>)
    THEN runLengths(Tail(lines), k + 1)
    ELSE (IF k > 0 THEN <<k>> ELSE <<>>) \o runLengths(Tail(lines), 0)

\* The number of items of each list container of some markup, from the
\* left; an item outside every container counts as a container of none.
RECURSIVE itemsPerList(_, _, _)
itemsPerList(html, inside, k) ==
    IF html = <<>>
    THEN IF inside THEN <<k>> ELSE <<>>
    ELSE IF Head(html) = "<ul>"
    THEN (IF inside THEN <<k>> ELSE <<>>) \o itemsPerList(Tail(html), TRUE, 0)
    ELSE IF Head(html) = "</ul>"
    THEN <<k>> \o itemsPerList(Tail(html), FALSE, 0)
    ELSE IF Head(html) = "<li>"
    THEN IF inside
         THEN itemsPerList(Tail(html), TRUE, k + 1)
         ELSE <<0>> \o itemsPerList(Tail(html), FALSE, 0)
    ELSE itemsPerList(Tail(html), inside, k)

\* C17: every maximal run of k >= 1 consecutive "- item" lines yields
\* exactly one list container with exactly k items; items a blank line
\* separates get a container each.
C17_OneListPerRun ==
    pc = "html" => itemsPerList(value.of, FALSE, 0) = runLengths(split(text), 0)

\* Two items with a blank line between them, and an item run of two.
C17_Witness ==
    /\ pc = "html"
    /\ text = join(<<(<<"-", " ", "a">>), <<>>, (<<"-", " ", "a">>)>>)
    /\ itemsPerList(value.of, FALSE, 0) = <<1, 1>>

\* Emphasis tags opened and closed like brackets.
RECURSIVE nested(_, _)
nested(html, open) ==
    IF html = <<>>
    THEN open = <<>>
    ELSE IF Head(html) \in {"<strong>", "<em>", "<em class=text-accent>"}
    THEN nested(Tail(html), <<Head(html)>> \o open)
    ELSE IF Head(html) = "</strong>"
    THEN open # <<>> /\ Head(open) = "<strong>" /\ nested(Tail(html), Tail(open))
    ELSE IF Head(html) = "</em>"
    THEN /\ open # <<>>
         /\ Head(open) \in {"<em>", "<em class=text-accent>"}
         /\ nested(Tail(html), Tail(open))
    ELSE nested(Tail(html), open)

\* C18: with triple emphasis replaced before double before single, a body
\* whose single-emphasis spans lie inside double-emphasis spans renders with
\* the emphasis tags correctly nested and no asterisk left over.
C18_EmphasisNested ==
    pc = "html" =>
        /\ nested(value.of, <<>>)
        /\ indexOf(value.of, "*", 1) = 0

\* The header block, line by line, as the claims read it: a blank line, a
\* "- item" line, a "key: value" line.
isBlank(line) == trim(line) = <<>>

isItem(line) == startsWith(trim(line), <<"-", " ">>)

isKeyLine(line) == ~isItem(line) /\ indexOf(line, ":", 1) > 1

lineKey(line) == trim(SubSeq(line, 1, indexOf(line, ":", 1) - 1))

emptyValue(line) == trim(SubSeq(line, indexOf(line, ":", 1) + 1, Len(line))) = <<>>

itemText(line) == trim(SubSeq(trim(line), 3, Len(trim(line))))

\* The items from line i on: blank lines skipped, up to the first line that
\* is neither blank nor an item.
RECURSIVE itemsFrom(_, _)
itemsFrom(lines, i) ==
    IF i > Len(lines) THEN <<>>
    ELSE IF isBlank(lines[i]) THEN itemsFrom(lines, i + 1)
    ELSE IF isItem(lines[i]) THEN <<itemText(lines[i])>> \o itemsFrom(lines, i + 1)
    ELSE <<>>

\* Line i is the last line of the header that gives key a value.
lastLineOf(lines, i, key) ==
    /\ isKeyLine(lines[i])
    /\ lineKey(lines[i]) = key
    /\ \A j \in (i + 1)..Len(lines) : ~(isKeyLine(lines[j]) /\ lineKey(lines[j]) = key)

\* C19: the record parseFrontmatter returns always has a tags field that is
\* a sequence: empty when the header has no tags key or gives tags a scalar
\* value, otherwise the items listed under the tags key, in header order.
C19_TagsIsSequence ==
    pc = "frontmatter" =>
        LET lines == split(text)
        IN  /\ <<"tags">> \in DOMAIN value.of
            /\ value.of[<<"tags">>].kind = "array"
            /\ (\A i \in DOMAIN lines : ~lastLineOf(lines, i, <<"tags">>))
                 => value.of[<<"tags">>].of = <<>>
            /\ \A i \in DOMAIN lines :
                 lastLineOf(lines, i, <<"tags">>) =>
                    value.of[<<"tags">>].of =
                        IF emptyValue(lines[i]) THEN itemsFrom(lines, i + 1) ELSE <<>>

\* tags given as a scalar after a title: the field is the empty sequence.
C19_Witness ==
    /\ pc = "frontmatter"
    /\ text = join(<<(<<"title", ":", " ", "x", " ">>), (<<"tags", ":", " ", "x">>)>>)
    /\ value.of[<<"tags">>] = Array(<<>>)
    /\ value.of[<<"title">>] = Scalar(<<"x">>)

\* C20: a key line with an empty value starts a list that holds every
\* following "- item" line, in order, up to the first non-blank line that is
\* no item or to the end of the header; blank lines among the items are
\* skipped; with no item following, the list is empty.
C20_ListCollectsItems ==
    pc = "frontmatter" =>
        LET lines == split(text)
        IN  \A i \in DOMAIN lines :
                (/\ isKeyLine(lines[i])
                 /\ emptyValue(lines[i])
                 /\ lastLineOf(lines, i, lineKey(lines[i])))
                  => /\ lineKey(lines[i]) \in DOMAIN value.of
                     /\ value.of[lineKey(lines[i])] = Array(itemsFrom(lines, i + 1))

\* Two items, the second indented, with a blank line between them.
C20_Witness ==
    /\ pc = "frontmatter"
    /\ text = join(<<(<<"tags", ":">>), (<<"-", " ", "x">>), <<>>, (<<" ", " ", "-", " ", "y">>)>>)
    /\ value.of[<<"tags">>] = Array(<<(<<"x">>), (<<"y">>)>>)

\* The text opens with a --- line and has a --- line after it; k is the
\* first such line.
closingLine(lines, k) ==
    /\ k \in 2..Len(lines)
    /\ lines[1] = <<"-", "-", "-">>
    /\ lines[k] = <<"-", "-", "-">>
    /\ \A j \in 2..(k - 1) : lines[j] # <<"-", "-", "-">>

\* C21: parseFrontmatter throws the format error when the text does not
\* start with a header block between two --- lines; when it does (the
\* header may be empty, the closing --- may be the file's last line) it
\* returns a record and the text after the closing line as body.
C21_DelimitedHeader ==
    pc = "parsed" =>
        LET lines == split(text)
        IN  /\ (\A k \in DOMAIN lines : ~closingLine(lines, k))
                 => value.thrown = "Invalid frontmatter format"
            /\ \A k \in DOMAIN lines :
                 closingLine(lines, k) =>
                    /\ value.thrown = ""
                    /\ value.body = trimBody(join(<<(<<>>)>> \o SubSeq(lines, k + 1, Len(lines))))

\* The featuredImage value the header gives, as parseFrontmatter returns it.
parsedImage == field(parseFrontmatterText(text).frontmatter, <<"featuredImage">>)

\* C22: the loader returns a featuredImage that begins with images/ as the
\* same remainder under /images/blog/, and every other featuredImage value
\* (absent and already public ones included) unchanged.
C22_FeaturedImageRewrite ==
    pc = "loaded" =>
        /\ value.thrown = ""
        /\ field(value.meta, <<"featuredImage">>) =
              IF parsedImage.kind = "string" /\ startsWith(parsedImage.of, <<"images/">>)
              THEN Scalar(<<"/", "images/", "blog/">> \o Tail(parsedImage.of))
              ELSE parsedImage

\* The markdown files a build with this target reads first.
filesToProcess(target) ==
    {s \in Stems : md[s] # NoFile /\ (target = "all" \/ target = s)}

\* A finishing build that got as far as copyImages: it had files to process
\* and all of them had a header block.
BuildCopiesImages ==
    /\ Finishes
    /\ result'.op = "build"
    /\ filesToProcess(result'.target) # {}
    /\ \A s \in filesToProcess(result'.target) : md[s] # BadMarkdown

\* C23: without a source images directory the image step changes nothing
\* (no public directory is made) and a build with nothing else wrong ends
\* without error; with one, the public directory exists afterwards and
\* holds every regular file of the source directory.
C23_ImagesCopied ==
    [][BuildCopiesImages =>
         /\ imgSrc = NoDir =>
              /\ imgPub' = imgPub
              /\ (\A s \in Stems : md[s] \in {NoFile, ArticleOf(s)})
                    => (result'.outcome = "ok" /\ result'.exit = 0)
         /\ imgSrc # NoDir =>
              /\ imgPub' # NoDir
              /\ \A i \in Images : imgSrc.entries[i] = "file" => i \in imgPub'.files
      ]_vars

\* A build that ended well with no images directory on either side.
C23_Witness ==
    /\ pc = "done"
    /\ result.op = "build"
    /\ result.outcome = "ok"
    /\ imgSrc = NoDir
    /\ imgPub = NoDir

\* The markdown files whose articles a build with this target would emit:
\* the files it reads first, or every file when build-one finds an index.
filesEmitted(target) ==
    IF target # "all" /\ index # NoFile /\ filesToProcess(target) # {}
    THEN {s \in Stems : md[s] # NoFile}
    ELSE filesToProcess(target)

\* C24: a build that would emit an article whose markdown file has no
\* well-formed header block ends with a non-zero exit, and every generated
\* module and the index are as they were before it ran.
C24_LoadBeforeWrite ==
    [][(/\ Finishes
        /\ result'.op = "build"
        /\ \E s \in filesEmitted(result'.target) : md[s] = BadMarkdown)
         => /\ result'.exit # 0
            /\ result'.outcome = "Invalid frontmatter format"
            /\ mods' = mods
            /\ index' = index
      ]_vars

\* A build-one of a good article next to a malformed one, with an index and
\* a module already generated, has ended.
C24_Witness ==
    /\ pc = "done"
    /\ result.op = "build"
    /\ result.target \in Stems
    /\ md[result.target] \notin {NoFile, BadMarkdown}
    /\ \E s \in Stems : md[s] = BadMarkdown
    /\ result.outcome = "Invalid frontmatter format"
    /\ index # NoFile
    /\ \E s \in Stems : mods[s] # NoFile

\* The index file lists this slug among its posts.
indexLists(idx, slug) == idx # NoFile /\ \E i \in DOMAIN idx.posts : idx.posts[i] = slug

\* C25: a delete-one of an article whose module exists, run while a markdown
\* file has no well-formed header block, ends in failure with that module
\* removed, every other module kept and the index file as it was, so an
\* index that listed the slug lists it still.
C25_DeleteRemovesBeforeLoading ==
    [][(/\ Finishes
        /\ result'.op = "delete"
        /\ result'.target \in Stems
        /\ mods[result'.target] # NoFile
        /\ \E s \in Stems : md[s] = BadMarkdown)
         => /\ result'.exit # 0
            /\ result'.outcome = "Invalid frontmatter format"
            /\ mods' = [mods EXCEPT ![result'.target] = NoFile]
            /\ index' = index
            /\ indexLists(index, result'.target) => indexLists(index', result'.target)
      ]_vars

\* A failed delete-one has left an index that lists the slug whose module
\* is gone.
C25_Witness ==
    /\ pc = "done"
    /\ result.op = "delete"
    /\ result.target \in Stems
    /\ result.outcome = "Invalid frontmatter format"
    /\ mods[result.target] = NoFile
    /\ indexLists(index, result.target)

\* No markdown file stands behind this slug: none has it as its stem and
\* none carries it in its header.
sourceRemoved(slug) ==
    /\ md[slug] = NoFile
    /\ \A s \in Stems : md[s] \in {NoFile, BadMarkdown} \/ processMarkdownFile(md[s]).slug # slug

\* C26: a build removes no per-article module; a module whose markdown
\* source is gone is left as it was and an index the build writes does not
\* list it; a build that finds no markdown file changes no file at all.
C26_BuildKeepsModules ==
    [][(Finishes /\ result'.op = "build") =>
         /\ \A s \in Stems : mods[s] # NoFile => mods'[s] # NoFile
         /\ \A s \in Stems :
              (mods[s] # NoFile /\ sourceRemoved(s)) =>
                 /\ mods'[s] = mods[s]
                 /\ index' # index => ~indexLists(index', s)
         /\ (\A s \in Stems : md[s] = NoFile) =>
              /\ mods' = mods
              /\ index' = index
              /\ imgPub' = imgPub
              /\ result'.exit = 0
      ]_vars

\* A build has rewritten the index without an article whose module is
\* still in the output directory.
C26_Witness ==
    /\ pc = "done"
    /\ result.op = "build"
    /\ result.outcome = "ok"
    /\ \E s \in Stems :
          /\ mods[s] # NoFile
          /\ sourceRemoved(s)
          /\ ~indexLists(index, s)
    /\ \E s \in Stems : indexLists(index, s)

\* The arguments given, as a set: what is on the command line, wherever.
given(args) == {args[i] : i \in DOMAIN args}

\* The path the stated precedence selects for a command line.
selectedPath(args) ==
    IF "--delete" \in given(args) THEN "--delete"
    ELSE IF given(args) \cap {"-d", "--delete-slug"} # {} THEN "-d"
    ELSE IF given(args) \cap {"--all", "-a"} # {} THEN "--all"
    ELSE IF args # <<>> /\ ~startsWithDash(args[1]) THEN "slug"
    ELSE "interactive"

\* C27: the script starts on the one path the precedence --delete, then
\* -d / --delete-slug, then --all / -a, then a leading bare word, then the
\* action prompt selects for its arguments, does on it what that path is for
\* (the delete prompt or nothing to delete; a delete of the given slug or
\* the refusal; build-all; build-one of the first argument; the action
\* prompt), and stays on that path until the process ends.
C27_DispatchPrecedence ==
    [][/\ (pc = "idle" /\ pc' # "idle") =>
            /\ path' = selectedPath(argv')
            /\ path' = "--delete" =>
                 \/ pc' = "promptDelete"
                 \/ pc' = "done" /\ result'.outcome = "No articles to delete."
            /\ path' = "-d" =>
                 /\ pc' = "done"
                 /\ \/ result'.op = "delete"
                       /\ \E i \in 1..(Len(argv') - 1) :
                             /\ argv'[i] \in {"-d", "--delete-slug"}
                             /\ result'.target = argv'[i + 1]
                    \/ result'.outcome = "Please provide an article slug to delete"
            /\ path' = "--all" =>
                 pc' = "done" /\ result'.op = "build" /\ result'.target = "all"
            /\ path' = "slug" =>
                 pc' = "done" /\ result'.op = "build" /\ result'.target = argv'[1]
            /\ path' = "interactive" => pc' = "promptAction"
       /\ (pc # "idle" /\ pc' # "idle") =>
            /\ path' = path
            /\ path \in {"--delete", "-d"} => (pc' = "done" /\ result'.op # "build")
      ]_vars

\* build-all has run for a command line whose first argument is a bare slug
\* and whose second is --all.
C27_Witness ==
    /\ pc = "done"
    /\ Len(argv) = 2
    /\ argv[1] = "alpha"
    /\ argv[2] = "--all"
    /\ path = "--all"
    /\ result.op = "build"
    /\ result.target = "all"
    /\ result.outcome = "ok"

\* Every markdown file of these sources has a header whose slug is the
\* file's stem, and there is at least one file.
slugsAreStems(sources) ==
    /\ \E n \in Names : sources[n] # NoFile
    /\ \A n \in Names : sources[n] # NoFile => (sources[n].header /\ sources[n].slug = n)

\* C28: when every markdown file's header slug equals its filename stem,
\* build-all leaves an index whose keys are distinct, are exactly the
\* filename stems, and each name a file of the output directory that is the
\* module of that article.
C28_KeysAreStemsWithModules ==
    (pc = "built" /\ slugsAreStems(text)) =>
        /\ value.thrown = ""
        /\ value.dir["index"].kind = "index"
        /\ LET posts == value.dir["index"].posts
           IN  /\ \A i, j \in DOMAIN posts : posts[i] = posts[j] => i = j
               /\ {posts[i] : i \in DOMAIN posts} = {n \in Names : text[n] # NoFile}
               /\ \A i \in DOMAIN posts :
                     /\ value.dir[posts[i]].kind = "module"
                     /\ value.dir[posts[i]].meta.slug = posts[i]

====
